---- MODULE Spec2Model ----
(***************************************************************************)
(* dynamodb-backups: main.go.  One run of the program: getTablesRegex      *)
(* lists the tables that match config.TableRegex, main starts one          *)
(* createBackup and one expireBackups goroutine per matched table, every   *)
(* expireBackups starts one deleteBackup goroutine per backup listed, and  *)
(* main drains createChannel and then expireChannel.                       *)
(***************************************************************************)
EXTENDS Integers, Sequences, FiniteSets, Bags, TLC

(***************************************************************************)
(* Bounds of the model                                                     *)
(***************************************************************************)
\* backups in the store before the run
MaxBackups == 2
\* clock ticks that may pass during the run
MaxTicks == 1
\* clock ticks in one calendar day (a tick is the model's time resolution)
DayLen == 2
\* backups the store returns in one ListBackups answer
BackupPageLimit == 2

\* envDefault of BACKUP_EXPIRE_DAYS
DefaultExpireDays == 1

\* a Go error value: nil, or an error of the store
Nil == "nil"
Err == "error"

\* the time at which the run starts, at the beginning of a day; every
\* earlier tick is a possible creation time of a backup that exists before
\* the run
StartTime == DayLen * (DefaultExpireDays + 1)

(***************************************************************************)
(* Table names and patterns.  A name is its sequence of characters; a      *)
(* compiled pattern is a literal, optionally anchored at the start, which  *)
(* is the part of the regexp syntax the model draws TABLE_REGEX from.      *)
(***************************************************************************)
Chars(name) ==
    CASE name = "logs"     -> <<"l", "o", "g", "s">>
      [] name = "orders_1" -> <<"o", "r", "d", "e", "r", "s", "_", "1">>
      [] name = "orders_2" -> <<"o", "r", "d", "e", "r", "s", "_", "2">>

TableNames == {"logs", "orders_1", "orders_2"}

\* TABLE_REGEX values, as their source text
PatOrders == <<"^", "o", "r", "d", "e", "r", "s", "_">>
PatOne == <<"_", "1">>
PatNone == <<"^", "x">>
PatMalformed == <<"(", "o">>

Range(s) == {s[k] : k \in 1..Len(s)}

\* lit occurs in s at offset k
OccursAt(lit, s, k) ==
    /\ k + Len(lit) <= Len(s)
    /\ \A j \in 1..Len(lit) : s[k + j] = lit[j]

\* the *Regexp that regexp.Compile returns with an error
NilRegexp == [nil |-> TRUE, anchored |-> FALSE, lit |-> <<>>]

\* an unclosed group does not compile
WellFormed(p) == "(" \notin Range(p)

\* regexp.Compile: the compiled pattern, or nil (with an error that
\* getTablesRegex drops) when the pattern is malformed
RegexpCompile(p) ==
    IF ~WellFormed(p) THEN NilRegexp
    ELSE IF p # <<>> /\ Head(p) = "^"
           THEN [nil |-> FALSE, anchored |-> TRUE, lit |-> Tail(p)]
           ELSE [nil |-> FALSE, anchored |-> FALSE, lit |-> p]

\* (*Regexp).MatchString on a compiled pattern: an unanchored search
MatchString(re, name) ==
    IF re.anchored
      THEN OccursAt(re.lit, Chars(name), 0)
      ELSE \E k \in 0..Len(Chars(name)) : OccursAt(re.lit, Chars(name), k)

\* the callback's loop without its test
SelectMatchesAll(re, page) == page

RECURSIVE SelectMatches(_, _)
\* the body of the page callback's loop: the names of the page that match,
\* in the page's order
SelectMatches(re, page) ==
    IF page = <<>> THEN <<>>
    ELSE (IF MatchString(re, Head(page)) THEN <<Head(page)>> ELSE <<>>)
           \o SelectMatches(re, Tail(page))

\* the value the page callback returns to ListTablesPages, which goes on to
\* the next page only when the callback returns true
CallbackReturn(lastPage) == lastPage

RECURSIVE Flatten(_)
Flatten(pages) ==
    IF pages = <<>> THEN <<>> ELSE Head(pages) \o Flatten(Tail(pages))

(***************************************************************************)
(* The store's backups                                                     *)
(***************************************************************************)
\* time.Now().UTC() at a tick of the model: a tick is one hour of a day of
\* DayLen hours, the days counted from the first of a month
UTC(tick) ==
    [year |-> 2024, month |-> 1, day |-> 1 + tick \div DayLen,
     hour |-> tick % DayLen, minute |-> 0, second |-> 0]

RECURSIVE Digits(_)
\* %d: the decimal digits of n
Digits(n) == IF n < 10 THEN <<n>> ELSE Digits(n \div 10) \o <<n % 10>>

\* %02d: the decimal digits of n, padded with a zero to two
Pad2(n) == IF n < 10 THEN <<0, n>> ELSE Digits(n)

\* the timestamp with the hour formatted after the day
TimestampWithHour(t) ==
    Digits(t.year) \o Pad2(t.month) \o Pad2(t.day) \o Pad2(t.hour)
        \o Pad2(t.minute) \o Pad2(t.second)

\* fmt.Sprintf("%d%02d%02d%02d%02d", t.Year(), t.Month(), t.Day(),
\* t.Minute(), t.Second()): no hour
Timestamp(t) ==
    Digits(t.year) \o Pad2(t.month) \o Pad2(t.day)
        \o Pad2(t.minute) \o Pad2(t.second)

\* fmt.Sprintf("%s_%s", table, timestamp)
BackupName(table, t) == <<table, Timestamp(t)>>

RECURSIVE SortByArn(_)
SortByArn(set) ==
    IF set = {} THEN <<>>
    ELSE LET first == CHOOSE b \in set : \A c \in set : b.arn <= c.arn
         IN  <<first>> \o SortByArn(set \ {first})

\* the store's answer to ListBackups(TableName, TimeRangeUpperBound): the
\* table's backups created strictly before the bound, one page of them
StoreListBackups(store, table, upperBound) ==
    LET all == SortByArn({b \in store : b.table = table /\ b.created < upperBound})
    IN  SubSeq(all, 1, IF Len(all) < BackupPageLimit THEN Len(all) ELSE BackupPageLimit)

(***************************************************************************)
(* State                                                                   *)
(***************************************************************************)
VARIABLES
    TableRegex,        \* config.TableRegex
    BackupExpireDays,  \* config.BackupExpireDays
    tablePages,        \* store: the pages of the ListTables answer
    backups,           \* store: the backups that exist now
    initialBackups,    \* store: the backups that existed before the run
    clock,             \* time.Now()
    mainPc,            \* main: where the main goroutine is
    patternRegex,      \* getTablesRegex: patternRegex
    pageNum,           \* getTablesRegex: pageNum
    matchedTables,     \* getTablesRegex/main: matchedTables
    listTablesErr,     \* getTablesRegex: err
    tableCount,        \* main: tableCount
    i,                 \* main: i of the draining loop it is in
    createChannel,     \* main: createChannel (capacity tableCount)
    expireChannel,     \* main: expireChannel (capacity tableCount)
    creates,           \* the createBackup goroutines, in launch order
    expires,           \* the expireBackups goroutines, in launch order, each
                       \* with its deleteChannel and deleteBackup goroutines
    emittedCreate,     \* history: bag of the CreateMessages sent so far
    emittedExpire,     \* history: bag of the ExpireMessages sent so far
    storeCalls,        \* history: bag of the store calls issued so far
    naming             \* createBackup's naming alone: a table, two values
                       \* of time.Now() and the names made of them

configVars == <<TableRegex, BackupExpireDays>>
storeVars == <<tablePages, backups, initialBackups>>
matcherVars == <<patternRegex, pageNum, matchedTables, listTablesErr>>
mainVars == <<mainPc, tableCount, i>>
channelVars == <<createChannel, expireChannel>>
taskVars == <<creates, expires>>
historyVars == <<emittedCreate, emittedExpire, storeCalls>>
vars == <<configVars, storeVars, clock, matcherVars, mainVars, channelVars,
          taskVars, historyVars, naming>>

\* a store call, as the history records it
Call(op, table, arn) == [op |-> op, table |-> table, arn |-> arn]
Record(call) == storeCalls (+) SetToBag({call})

\* the process is alive: main has neither returned nor panicked
Running == mainPc \notin {"done", "panic"}

(***************************************************************************)
(* Initial states                                                          *)
(***************************************************************************)
RECURSIVE Chunk(_, _)
\* the store's listing s, cut into pages of size n
Chunk(s, n) ==
    IF Len(s) <= n THEN <<s>>
    ELSE <<SubSeq(s, 1, n)>> \o Chunk(SubSeq(s, n + 1, Len(s)), n)

\* the order in which the store lists its tables
StoreOrder == <<"logs", "orders_2", "orders_1">>

Listings == {Chunk(StoreOrder, n) : n \in 2..3}

Patterns == {PatOrders, PatOne, PatNone, PatMalformed}

BackupTables == {"orders_1", "orders_2"}

\* the j-th backup of a table before the run: the first is older than one
\* day at StartTime, the next ones are exactly one day old
InitialCreated(j) == IF j = 1 THEN StartTime - DayLen - 1 ELSE StartTime - DayLen

\* the store with cnt[t] backups of table t
StoreWith(cnt) ==
    LET base(t) == IF t = "orders_1" THEN 0 ELSE cnt["orders_1"]
    IN  UNION {{[arn |-> base(t) + j, table |-> t,
                 name |-> BackupName(t, UTC(InitialCreated(j))),
                 created |-> InitialCreated(j)] : j \in 1..cnt[t]}
               : t \in BackupTables}

InitialStores ==
    {StoreWith(cnt) : cnt \in {c \in [BackupTables -> 0..MaxBackups] :
                                  c["orders_1"] + c["orders_2"] <= MaxBackups}}

\* no name is being made apart from the run's
NoNaming == [table |-> "logs", times |-> <<>>, names |-> <<>>]

\* the state of the run before main's first statement
InitRun ==
    /\ clock = StartTime
    /\ mainPc = "compile"
    /\ patternRegex = NilRegexp
    /\ pageNum = 0
    /\ matchedTables = <<>>
    /\ listTablesErr = Nil
    /\ tableCount = 0
    /\ i = 0
    /\ createChannel = <<>>
    /\ expireChannel = <<>>
    /\ creates = <<>>
    /\ expires = <<>>
    /\ emittedCreate = EmptyBag
    /\ emittedExpire = EmptyBag
    /\ storeCalls = EmptyBag

\* the state of the program before main's first statement
InitProgram == InitRun /\ naming = NoNaming

\* runs over every pattern, listing and store
Init ==
    /\ TableRegex \in Patterns
    /\ BackupExpireDays \in {0, DefaultExpireDays}
    /\ tablePages \in Listings
    /\ backups \in InitialStores
    /\ initialBackups = backups
    /\ InitProgram

(***************************************************************************)
(* getTablesRegex                                                          *)
(***************************************************************************)
\* patternRegex, _ := regexp.Compile(pattern)
Compile ==
    /\ mainPc = "compile"
    /\ patternRegex' = RegexpCompile(TableRegex)
    /\ mainPc' = "listTables"
    /\ UNCHANGED <<configVars, naming, storeVars, clock, pageNum, matchedTables,
                   listTablesErr, tableCount, i, channelVars, taskVars,
                   historyVars>>

\* one round of dynamo.ListTablesPages: the request for the next page and,
\* when the store answers it, the callback on that page
ListTablesPage ==
    /\ mainPc = "listTables"
    /\ storeCalls' = Record(Call("ListTables", "", 0))
    /\ \E ok \in BOOLEAN :
         IF ~ok
           THEN /\ listTablesErr' = Err
                /\ mainPc' = "launch"
                /\ UNCHANGED <<pageNum, matchedTables>>
           ELSE LET page == tablePages[pageNum + 1]
                    lastPage == pageNum + 1 = Len(tablePages)
                IN  /\ pageNum' = pageNum + 1
                    /\ UNCHANGED listTablesErr
                    /\ IF patternRegex.nil /\ page # <<>>
                         THEN \* MatchString on a nil *Regexp
                              /\ mainPc' = "panic"
                              /\ UNCHANGED matchedTables
                         ELSE /\ matchedTables' =
                                   matchedTables \o SelectMatches(patternRegex, page)
                              /\ mainPc' = IF CallbackReturn(lastPage) /\ ~lastPage
                                             THEN "listTables" ELSE "launch"
    /\ UNCHANGED <<configVars, naming, storeVars, clock, patternRegex, tableCount, i,
                   channelVars, taskVars, emittedCreate, emittedExpire>>

(***************************************************************************)
(* main                                                                    *)
(***************************************************************************)
\* a goroutine that `go createBackup(table, createChannel)` starts
CreateTask(table) ==
    [table |-> table, pc |-> "start", name |-> <<>>, err |-> Nil]

\* a goroutine that `go expireBackups(table, expireChannel)` starts
ExpireTask(table) ==
    [table |-> table, pc |-> "start", now |-> 0, cutoff |-> 0, err |-> Nil,
     summaries |-> <<>>, deleteCount |-> 0, i |-> 0,
     deleteChannel |-> <<>>, closed |-> FALSE, deletes |-> <<>>]

\* the tables the launching loop ranges over
LaunchedTablesTwice(tables) == tables \o tables
LaunchedTables(tables) == tables

\* make(chan CreateMessage, tableCount), make(chan ExpireMessage, tableCount)
ChannelCapacityShort(count) == count - 1
ChannelCapacity(count) == count

\* the condition of main's two draining loops
DrainMoreShort(n, count) == n + 1 < count
DrainMore(n, count) == n < count

\* tableCount, the two channels and the launching loop
Launch ==
    /\ mainPc = "launch"
    /\ tableCount' = Len(matchedTables)
    /\ createChannel' = <<>>
    /\ expireChannel' = <<>>
    /\ LET tables == LaunchedTables(matchedTables)
       IN  /\ creates' = [k \in 1..Len(tables) |-> CreateTask(tables[k])]
           /\ expires' = [k \in 1..Len(tables) |-> ExpireTask(tables[k])]
    /\ i' = 0
    /\ mainPc' = IF DrainMore(0, Len(matchedTables)) THEN "recvCreate" ELSE "done"
    /\ UNCHANGED <<configVars, naming, storeVars, clock, matcherVars, historyVars>>

\* createMessage := <-createChannel
RecvCreate ==
    /\ mainPc = "recvCreate"
    /\ createChannel # <<>>
    /\ createChannel' = Tail(createChannel)
    /\ IF DrainMore(i + 1, tableCount)
         THEN /\ i' = i + 1
              /\ UNCHANGED mainPc
         ELSE /\ i' = 0
              /\ mainPc' = IF DrainMore(0, tableCount) THEN "recvExpire" ELSE "done"
    /\ UNCHANGED <<configVars, naming, storeVars, clock, matcherVars, tableCount,
                   expireChannel, taskVars, historyVars>>

\* expireMessage := <-expireChannel
RecvExpire ==
    /\ mainPc = "recvExpire"
    /\ expireChannel # <<>>
    /\ expireChannel' = Tail(expireChannel)
    /\ IF DrainMore(i + 1, tableCount)
         THEN /\ i' = i + 1
              /\ UNCHANGED mainPc
         ELSE /\ i' = 0
              /\ mainPc' = "done"
    /\ UNCHANGED <<configVars, naming, storeVars, clock, matcherVars, tableCount,
                   createChannel, taskVars, historyVars>>

\* time passes while the process runs
Tick ==
    /\ Running
    /\ clock < StartTime + MaxTicks
    /\ clock' = clock + 1
    /\ UNCHANGED <<configVars, naming, storeVars, matcherVars, mainVars, channelVars,
                   taskVars, historyVars>>

(***************************************************************************)
(* createBackup                                                            *)
(***************************************************************************)
\* the ARN the store gives the backup that the k-th createBackup creates
NewArn(k) == MaxBackups + k

\* the CreateMessage of either branch
CreateMessageNoError(task) ==
    [TableName |-> task.table, BackupName |-> task.name, Error |-> Nil]
CreateMessage(task) ==
    [TableName |-> task.table, BackupName |-> task.name, Error |-> task.err]

\* now, timestamp, backupName, and the CreateBackup request
CreateStart(k) ==
    /\ Running
    /\ creates[k].pc = "start"
    /\ creates' = [creates EXCEPT ![k].pc = "calling",
                                  ![k].name = BackupName(creates[k].table, UTC(clock))]
    /\ storeCalls' = Record(Call("CreateBackup", creates[k].table, 0))
    /\ UNCHANGED <<configVars, naming, storeVars, clock, matcherVars, mainVars,
                   channelVars, expires, emittedCreate, emittedExpire>>

\* the store answers the CreateBackup request: the backup exists, or an error
CreateReturn(k) ==
    /\ Running
    /\ creates[k].pc = "calling"
    /\ \E ok \in BOOLEAN :
         /\ creates' = [creates EXCEPT ![k].pc = "returned",
                                       ![k].err = IF ok THEN Nil ELSE Err]
         /\ backups' = IF ok
                         THEN backups \cup {[arn |-> NewArn(k),
                                             table |-> creates[k].table,
                                             name |-> creates[k].name,
                                             created |-> clock]}
                         ELSE backups
    /\ UNCHANGED <<configVars, naming, tablePages, initialBackups, clock, matcherVars,
                   mainVars, channelVars, expires, historyVars>>

\* createChannel <- CreateMessage{...}
CreateSend(k) ==
    /\ Running
    /\ creates[k].pc = "returned"
    /\ Len(createChannel) < ChannelCapacity(tableCount)
    /\ createChannel' = Append(createChannel, CreateMessage(creates[k]))
    /\ emittedCreate' = emittedCreate (+) SetToBag({CreateMessage(creates[k])})
    /\ creates' = [creates EXCEPT ![k].pc = "done"]
    /\ UNCHANGED <<configVars, naming, storeVars, clock, matcherVars, mainVars,
                   expireChannel, expires, emittedExpire, storeCalls>>

(***************************************************************************)
(* expireBackups                                                           *)
(***************************************************************************)
\* time.Now().AddDate(0, 0, -config.BackupExpireDays)
TimeRangeUpperBoundLater(now, days) == now + days * DayLen
TimeRangeUpperBound(now, days) == now - days * DayLen

\* deleteCount := len(listBackupsOutput.BackupSummaries)
DeleteCount(summaries) == Len(summaries)

\* a goroutine that `go deleteBackup(backupSummary, deleteChannel)` starts
DeleteTask(backupSummary) == [backup |-> backupSummary, pc |-> "start", err |-> Nil]

\* the launching loop: one deleteBackup per summary, each with its own
\* summary as argument
DeleteTasksLast(summaries) ==
    [j \in 1..Len(summaries) |-> DeleteTask(summaries[Len(summaries)])]
DeleteTasks(summaries) ==
    [j \in 1..Len(summaries) |-> DeleteTask(summaries[j])]

\* make(chan string, deleteCount)
DeleteChannelCapacityShort(deleteCount) == deleteCount - 1
DeleteChannelCapacity(deleteCount) == deleteCount

\* the condition of the loop that receives from deleteChannel
BarrierMoreShort(n, deleteCount) == n + 1 < deleteCount
BarrierMoreLong(n, deleteCount) == n <= deleteCount
BarrierMore(n, deleteCount) == n < deleteCount

\* the ExpireMessage that expireBackups sends: it sets no Error
ExpireMessageSucceeded(task) ==
    [TableName |-> task.table,
     Count |-> Cardinality({j \in 1..Len(task.deletes) : task.deletes[j].err = Nil}),
     Error |-> Nil]
ExpireMessage(task) ==
    [TableName |-> task.table, Count |-> task.deleteCount, Error |-> Nil]

\* timeRangeUpperBound and the ListBackups request
ExpireStart(k) ==
    /\ Running
    /\ expires[k].pc = "start"
    /\ expires' = [expires EXCEPT
                     ![k].pc = "listing",
                     ![k].now = clock,
                     ![k].cutoff = TimeRangeUpperBound(clock, BackupExpireDays)]
    /\ storeCalls' = Record(Call("ListBackups", expires[k].table, 0))
    /\ UNCHANGED <<configVars, naming, storeVars, clock, matcherVars, mainVars,
                   channelVars, creates, emittedCreate, emittedExpire>>

\* the store answers the ListBackups request; deleteCount, deleteChannel, and
\* the launching loop or close(deleteChannel)
ExpireListReturn(k) ==
    /\ Running
    /\ expires[k].pc = "listing"
    /\ \E ok \in BOOLEAN :
         LET summaries == IF ok
                            THEN StoreListBackups(backups, expires[k].table,
                                                  expires[k].cutoff)
                            ELSE <<>>
         IN  expires' = [expires EXCEPT
                 ![k].pc = "barrier",
                 ![k].err = IF ok THEN Nil ELSE Err,
                 ![k].summaries = summaries,
                 ![k].deleteCount = DeleteCount(summaries),
                 ![k].i = 0,
                 ![k].deleteChannel = <<>>,
                 ![k].closed = ~ok,
                 ![k].deletes = IF ok THEN DeleteTasks(summaries) ELSE <<>>]
    /\ UNCHANGED <<configVars, naming, storeVars, clock, matcherVars, mainVars,
                   channelVars, creates, historyVars>>

\* <-deleteChannel
ExpireRecv(k) ==
    /\ Running
    /\ expires[k].pc = "barrier"
    /\ BarrierMore(expires[k].i, expires[k].deleteCount)
    /\ expires[k].deleteChannel # <<>> \/ expires[k].closed
    /\ expires' = [expires EXCEPT
                     ![k].i = @ + 1,
                     ![k].deleteChannel = IF @ = <<>> THEN @ ELSE Tail(@)]
    /\ UNCHANGED <<configVars, naming, storeVars, clock, matcherVars, mainVars,
                   channelVars, creates, historyVars>>

\* expireChannel <- ExpireMessage{...}
ExpireSend(k) ==
    /\ Running
    /\ expires[k].pc = "barrier"
    /\ ~BarrierMore(expires[k].i, expires[k].deleteCount)
    /\ Len(expireChannel) < ChannelCapacity(tableCount)
    /\ expireChannel' = Append(expireChannel, ExpireMessage(expires[k]))
    /\ emittedExpire' = emittedExpire (+) SetToBag({ExpireMessage(expires[k])})
    /\ expires' = [expires EXCEPT ![k].pc = "done"]
    /\ UNCHANGED <<configVars, naming, storeVars, clock, matcherVars, mainVars,
                   createChannel, creates, emittedCreate, storeCalls>>

(***************************************************************************)
(* deleteBackup                                                            *)
(***************************************************************************)
\* what deleteBackup sends: the backup's name, or the error's text
DeleteMessage(task) == IF task.err = Nil THEN task.backup.name ELSE <<Err>>

\* the DeleteBackup request, by the summary's BackupArn
DeleteStart(k, j) ==
    /\ Running
    /\ expires[k].deletes[j].pc = "start"
    /\ expires' = [expires EXCEPT ![k].deletes[j].pc = "calling"]
    /\ storeCalls' = Record(Call("DeleteBackup", expires[k].deletes[j].backup.table,
                                 expires[k].deletes[j].backup.arn))
    /\ UNCHANGED <<configVars, naming, storeVars, clock, matcherVars, mainVars,
                   channelVars, creates, emittedCreate, emittedExpire>>

\* the store answers the DeleteBackup request: the backup is gone, or an error
DeleteReturn(k, j) ==
    /\ Running
    /\ expires[k].deletes[j].pc = "calling"
    /\ \E ok \in BOOLEAN :
         /\ ok => expires[k].deletes[j].backup \in backups
         /\ expires' = [expires EXCEPT ![k].deletes[j].pc = "returned",
                                       ![k].deletes[j].err = IF ok THEN Nil ELSE Err]
         /\ backups' = IF ok THEN backups \ {expires[k].deletes[j].backup} ELSE backups
    /\ UNCHANGED <<configVars, naming, tablePages, initialBackups, clock, matcherVars,
                   mainVars, channelVars, creates, historyVars>>

\* deleteChannel <- ...
DeleteSend(k, j) ==
    /\ Running
    /\ expires[k].deletes[j].pc = "returned"
    /\ ~expires[k].closed
    /\ Len(expires[k].deleteChannel) < DeleteChannelCapacity(expires[k].deleteCount)
    /\ expires' = [expires EXCEPT
                     ![k].deleteChannel = Append(@, DeleteMessage(expires[k].deletes[j])),
                     ![k].deletes[j].pc = "done"]
    /\ UNCHANGED <<configVars, naming, storeVars, clock, matcherVars, mainVars,
                   channelVars, creates, historyVars>>

(***************************************************************************)
(* The program                                                             *)
(***************************************************************************)
Next ==
    \/ Compile
    \/ ListTablesPage
    \/ Launch
    \/ RecvCreate
    \/ RecvExpire
    \/ \E k \in 1..Len(creates) : CreateStart(k)
    \/ \E k \in 1..Len(creates) : CreateReturn(k)
    \/ \E k \in 1..Len(creates) : CreateSend(k)
    \/ \E k \in 1..Len(expires) : ExpireStart(k)
    \/ \E k \in 1..Len(expires) : ExpireListReturn(k)
    \/ \E k \in 1..Len(expires) : ExpireRecv(k)
    \/ \E k \in 1..Len(expires) : ExpireSend(k)
    \/ \E k \in 1..Len(expires) : \E j \in 1..Len(expires[k].deletes) : DeleteStart(k, j)
    \/ \E k \in 1..Len(expires) : \E j \in 1..Len(expires[k].deletes) : DeleteReturn(k, j)
    \/ \E k \in 1..Len(expires) : \E j \in 1..Len(expires[k].deletes) : DeleteSend(k, j)

\* the runs that are over before the clock ticks
Spec == Init /\ [][Next]_vars

\* the runs during which the clock ticks
InitTimed ==
    /\ TableRegex \in {PatOne, PatOrders}
    /\ BackupExpireDays \in {0, DefaultExpireDays}
    /\ tablePages \in Listings
    /\ backups \in {s \in InitialStores :
                        Cardinality(s) <= 1 \/ TableRegex = PatOne}
    /\ initialBackups = backups
    /\ InitProgram

NextTimed == Next \/ Tick

TimedSpec == InitTimed /\ [][NextTimed]_vars

\* the runs with every scheduling that lets each goroutine that can take a
\* step take one, and in which every store call is answered
FairSpec == Spec /\ WF_vars(Next)

\* getTablesRegex alone, over every listing of the tables and every paging
Orders ==
    {s \in UNION {[1..n -> TableNames] : n \in 0..Cardinality(TableNames)} :
        \A a, b \in 1..Len(s) : a # b => s[a] # s[b]}

AllListings == {Chunk(s, n) : s \in Orders, n \in 1..Cardinality(TableNames)}

InitMatcher ==
    /\ TableRegex \in Patterns
    /\ BackupExpireDays = DefaultExpireDays
    /\ tablePages \in AllListings
    /\ backups = {}
    /\ initialBackups = backups
    /\ InitProgram

NextMatcher == Compile \/ ListTablesPage \/ Launch

MatcherSpec == InitMatcher /\ [][NextMatcher]_vars

(***************************************************************************)
(* Properties                                                              *)
(***************************************************************************)
\* the number of messages about table t in a bag of messages
ResultsOf(bag, t) ==
    LET ms == {m \in BagToSet(bag) : m.TableName = t}
    IN  BagCardinality([m \in ms |-> bag[m]])

\* the number of calls of op issued for table t
CallsOf(op, t) ==
    LET cs == {c \in BagToSet(storeCalls) : c.op = op /\ c.table = t}
    IN  BagCardinality([c \in cs |-> storeCalls[c]])

\* the number of tables that getTablesRegex returned
N == Len(matchedTables)

Matched(t) == t \in Range(matchedTables)

\* C1: over the whole run every matched table gets exactly one CreateMessage
\* and exactly one ExpireMessage, N of each in all, and no other table gets
\* any: never more than one while the run goes on, and one when main returns.
C1_ExactlyOneResultPerTable ==
    /\ \A t \in TableNames :
         /\ ResultsOf(emittedCreate, t) <= (IF Matched(t) THEN 1 ELSE 0)
         /\ ResultsOf(emittedExpire, t) <= (IF Matched(t) THEN 1 ELSE 0)
    /\ BagCardinality(emittedCreate) <= N
    /\ BagCardinality(emittedExpire) <= N
    /\ mainPc = "done" =>
         /\ \A t \in Range(matchedTables) :
              /\ ResultsOf(emittedCreate, t) = 1
              /\ ResultsOf(emittedExpire, t) = 1
         /\ BagCardinality(emittedCreate) = N
         /\ BagCardinality(emittedExpire) = N

\* main has returned from a run over two tables in which a create failed
C1_Witness ==
    /\ mainPc = "done"
    /\ N = 2
    /\ \E m \in BagToSet(emittedCreate) : m.Error = Err
    /\ BagCardinality(emittedCreate) = 2
    /\ BagCardinality(emittedExpire) = 2

AllTasksDone ==
    /\ \A k \in 1..Len(creates) : creates[k].pc = "done"
    /\ \A k \in 1..Len(expires) :
         /\ expires[k].pc = "done"
         /\ \A j \in 1..Len(expires[k].deletes) : expires[k].deletes[j].pc = "done"

\* C2: under fair scheduling, with every store call answered, the run ends:
\* the process stops and no goroutine is left waiting on a channel.
C2_Termination == <>(~Running /\ AllTasksDone)

\* main has returned from a run over two tables with a delete and a failed
\* listing of backups
C2_Witness ==
    /\ mainPc = "done"
    /\ N = 2
    /\ \E k \in 1..Len(expires) : expires[k].deleteCount > 0
    /\ \E k \in 1..Len(expires) : expires[k].err = Err

\* C3: when main has returned it has received N CreateMessages and N
\* ExpireMessages, and no CreateBackup or DeleteBackup call is unanswered.
C3_ReturnsAfterAllResults ==
    mainPc = "done" =>
      /\ BagCardinality(emittedCreate) = N
      /\ BagCardinality(emittedExpire) = N
      /\ createChannel = <<>>
      /\ expireChannel = <<>>
      /\ \A k \in 1..Len(creates) : creates[k].pc \in {"returned", "done"}
      /\ \A k \in 1..Len(expires) : \A j \in 1..Len(expires[k].deletes) :
           expires[k].deletes[j].pc \in {"returned", "done"}
      /\ Len(creates) = N
      /\ Len(expires) = N

\* main has returned from a run over two tables with a failed delete
C3_Witness ==
    /\ mainPc = "done"
    /\ N = 2
    /\ \E k \in 1..Len(expires) : \E j \in 1..Len(expires[k].deletes) :
         expires[k].deletes[j].err = Err

\* C4: a table's ExpireMessage is sent only when every deleteBackup started
\* for the table has had its DeleteBackup call answered and has sent its
\* outcome.
C4_DeleteBarrier ==
    \A k \in 1..Len(expires) :
      ResultsOf(emittedExpire, expires[k].table) > 0 =>
        \A j \in 1..Len(expires[k].deletes) : expires[k].deletes[j].pc = "done"

\* an ExpireMessage has been sent for a table with two deletes
C4_Witness ==
    \E k \in 1..Len(expires) :
      /\ ResultsOf(emittedExpire, expires[k].table) > 0
      /\ Len(expires[k].deletes) = 2

\* C5: after a successful listing the Count of the table's ExpireMessage is
\* the number of backups listed, of deleteBackups started, of DeleteBackup
\* calls issued and of outcomes received, failed deletes included; it is 0,
\* with no deleteBackup started, when no backup is listed.
C5_CountIsListedCount ==
    \A k \in 1..Len(expires) :
      (expires[k].pc = "done" /\ expires[k].err = Nil) =>
        /\ ResultsOf(emittedExpire, expires[k].table) > 0
        /\ \A m \in BagToSet(emittedExpire) :
             m.TableName = expires[k].table =>
               /\ m.Count = Len(expires[k].summaries)
               /\ m.Count = Len(expires[k].deletes)
               /\ m.Count = CallsOf("DeleteBackup", expires[k].table)
               /\ m.Count = expires[k].i

\* an ExpireMessage with Count 2 after one delete failed and one succeeded,
\* and one with Count 0 after a successful listing
C5_Witness ==
    /\ \E k \in 1..Len(expires) :
         /\ expires[k].pc = "done"
         /\ expires[k].err = Nil
         /\ Len(expires[k].deletes) = 2
         /\ expires[k].deletes[1].err = Err
         /\ expires[k].deletes[2].err = Nil
         /\ [TableName |-> expires[k].table, Count |-> 2, Error |-> Nil]
              \in BagToSet(emittedExpire)
    /\ \E k \in 1..Len(expires) :
         /\ expires[k].pc = "done"
         /\ expires[k].err = Nil
         /\ expires[k].deletes = <<>>
         /\ [TableName |-> expires[k].table, Count |-> 0, Error |-> Nil]
              \in BagToSet(emittedExpire)

\* C6: after a failed listing of a table's backups the table's
\* ExpireMessage has Count 0 and a non-nil Error, and no DeleteBackup call
\* is issued for the table.
C6_ListErrorReported ==
    \A k \in 1..Len(expires) :
      (expires[k].pc = "done" /\ expires[k].err # Nil) =>
        /\ ResultsOf(emittedExpire, expires[k].table) > 0
        /\ CallsOf("DeleteBackup", expires[k].table) = 0
        /\ \A m \in BagToSet(emittedExpire) :
             m.TableName = expires[k].table => (m.Count = 0 /\ m.Error # Nil)

\* the Count that a table's ExpireMessage has in the run in which no
\* CreateBackup call succeeds: the store holds the backups it held before
\* the run
CountWithoutCreates(task) ==
    IF task.err = Nil
      THEN Len(StoreListBackups(initialBackups, task.table, task.cutoff))
      ELSE 0

ExpireIndependentOfCreate ==
    \A k \in 1..Len(expires) :
      expires[k].pc = "done" =>
        /\ ResultsOf(emittedExpire, expires[k].table) > 0
        /\ \A m \in BagToSet(emittedExpire) :
             m.TableName = expires[k].table =>
               m.Count = CountWithoutCreates(expires[k])

\* C7 as stated: whatever the outcome of the CreateBackup calls, a table's
\* ExpireMessage is the one of the run in which every create fails.
C7_Original == ExpireIndependentOfCreate

\* C7 as amended: the same, when the retention threshold is at least one
\* day and less than one day passes during the run.
C7_IndependentWithinRetention ==
    (BackupExpireDays >= 1 /\ clock - StartTime < DayLen) =>
      ExpireIndependentOfCreate

\* with a retention of a day, a table's create succeeded, the clock ticked,
\* and the table's expireBackups then listed and deleted a backup
C7_Witness ==
    /\ BackupExpireDays >= 1
    /\ \E k \in 1..Len(expires) :
         /\ expires[k].pc = "done"
         /\ expires[k].deleteCount >= 1
         /\ expires[k].cutoff = TimeRangeUpperBound(clock, BackupExpireDays)
         /\ creates[k].pc = "done"
         /\ creates[k].err = Nil
         /\ \E b \in backups : b.arn = NewArn(k) /\ b.created < clock

\* TABLE_REGEX compiles and matches the name
PatternMatches(t) ==
    /\ WellFormed(TableRegex)
    /\ MatchString(RegexpCompile(TableRegex), t)

\* C8: no CreateMessage or ExpireMessage names a table that the pattern does
\* not match, and no CreateBackup, ListBackups or DeleteBackup call is issued
\* for such a table.
C8_OnlyMatchedTables ==
    /\ \A m \in BagToSet(emittedCreate) : PatternMatches(m.TableName)
    /\ \A m \in BagToSet(emittedExpire) : PatternMatches(m.TableName)
    /\ \A c \in BagToSet(storeCalls) :
         c.op \in {"CreateBackup", "ListBackups", "DeleteBackup"} =>
           PatternMatches(c.table)

\* main has returned from a run that deleted a backup of a matched table
\* while a table that the pattern does not match had a backup too
C8_Witness ==
    /\ mainPc = "done"
    /\ \E b \in initialBackups : ~PatternMatches(b.table)
    /\ \E c \in BagToSet(storeCalls) : c.op = "DeleteBackup"
    /\ BagCardinality(emittedExpire) >= 1

\* getTablesRegex has returned
ListingOver == mainPc \notin {"compile", "listTables", "panic"}

\* C9: when the listing succeeds getTablesRegex has consumed every page and
\* returns the matching names of all pages in the store's order.
C9_AllPagesMatched ==
    (ListingOver /\ listTablesErr = Nil /\ WellFormed(TableRegex)) =>
      /\ pageNum = Len(tablePages)
      /\ matchedTables =
           SelectMatches(RegexpCompile(TableRegex), Flatten(tablePages))

\* C10: with a malformed pattern no ListTables call is issued, no goroutine
\* is started and the process does not panic.
C10_MalformedPatternFailsFast ==
    ~WellFormed(TableRegex) =>
      /\ CallsOf("ListTables", "") = 0
      /\ mainPc # "panic"
      /\ creates = <<>>
      /\ expires = <<>>

\* the DeleteBackup calls issued for the backup with this ARN
DeleteCallsOf(arn) ==
    LET cs == {c \in BagToSet(storeCalls) : c.op = "DeleteBackup" /\ c.arn = arn}
    IN  BagCardinality([c \in cs |-> storeCalls[c]])

\* the backups, of before the run or created in it, that the store has held
EverStored ==
    initialBackups \cup backups
      \cup UNION {{expires[k].deletes[j].backup : j \in 1..Len(expires[k].deletes)}
                  : k \in 1..Len(expires)}

\* C11: with cutoff = the time at which expireBackups starts minus the
\* retention threshold, a deleteBackup is started, and a DeleteBackup call
\* issued, only for backups of the table created strictly before the cutoff;
\* a backup of before the run that is strictly older is listed whenever the
\* listing succeeds and the answer is not cut at the page limit.
C11_CutoffBoundary ==
    \A k \in 1..Len(expires) :
      LET cutoff == expires[k].now - BackupExpireDays * DayLen
      IN  /\ \A j \in 1..Len(expires[k].deletes) :
                /\ expires[k].deletes[j].backup.table = expires[k].table
                /\ expires[k].deletes[j].backup.created < cutoff
          /\ \A b \in EverStored :
                (b.table = expires[k].table /\ b.created >= cutoff
                   /\ expires[k].pc # "start") => DeleteCallsOf(b.arn) = 0
          /\ \A b \in initialBackups :
                (/\ b.table = expires[k].table
                 /\ b.created < cutoff
                 /\ expires[k].pc = "done"
                 /\ expires[k].err = Nil
                 /\ Len(expires[k].summaries) < BackupPageLimit)
                  => DeleteCallsOf(b.arn) = 1

\* a table had a backup created exactly at the cutoff and one a tick older:
\* its expireBackups has sent, the older one was deleted and the other is
\* still in the store, with no DeleteBackup call issued for it
C11_Witness ==
    \E k \in 1..Len(expires) :
      /\ expires[k].pc = "done"
      /\ BackupExpireDays = DefaultExpireDays
      /\ \E b \in backups :
           /\ b \in initialBackups
           /\ b.table = expires[k].table
           /\ b.created = expires[k].cutoff
           /\ DeleteCallsOf(b.arn) = 0
      /\ \E b \in initialBackups :
           /\ b \notin backups
           /\ b.table = expires[k].table
           /\ b.created = expires[k].cutoff - 1
           /\ DeleteCallsOf(b.arn) = 1

\* C12: no failure of a store call aborts the run, and every failure is in
\* the message of its table: while the pattern compiles the process does
\* not panic, a failed CreateBackup gives a CreateMessage with the error and
\* a failed ListBackups gives an ExpireMessage with the error.
C12_FailuresCaptured ==
    /\ WellFormed(TableRegex) => mainPc # "panic"
    /\ \A k \in 1..Len(creates) :
         (creates[k].pc = "done" /\ creates[k].err # Nil) =>
           \E m \in BagToSet(emittedCreate) :
             m.TableName = creates[k].table /\ m.Error # Nil
    /\ \A k \in 1..Len(expires) :
         (expires[k].pc = "done" /\ expires[k].err # Nil) =>
           \E m \in BagToSet(emittedExpire) :
             m.TableName = expires[k].table /\ m.Error # Nil

\* the runs over one table of which the store holds one backup more than a
\* ListBackups answer carries
InitPaged ==
    /\ TableRegex = PatOne
    /\ BackupExpireDays \in {0, DefaultExpireDays}
    /\ tablePages = Chunk(StoreOrder, Len(StoreOrder))
    /\ backups = StoreWith([t \in BackupTables |->
                              IF t = "orders_1" THEN BackupPageLimit + 1 ELSE 0])
    /\ initialBackups = backups
    /\ InitProgram

PagedSpec == InitPaged /\ [][Next]_vars

\* C13: after a successful listing every backup of the table created
\* strictly before the cutoff has a deleteBackup started for it, on whichever
\* page of the store's answer it is.
C13_AllBackupPagesConsumed ==
    \A k \in 1..Len(expires) :
      (expires[k].pc \in {"barrier", "done"} /\ expires[k].err = Nil) =>
        \A b \in initialBackups :
          (b.table = expires[k].table /\ b.created < expires[k].cutoff) =>
            \E j \in 1..Len(expires[k].deletes) : expires[k].deletes[j].backup = b

\* C14: neither channel ever holds more than N messages, and a goroutine
\* that is at its send finds room in its channel, whatever main has received
\* so far.
C14_ProducersNeverBlock ==
    /\ Len(createChannel) <= N
    /\ Len(expireChannel) <= N
    /\ \A k \in 1..Len(creates) :
         creates[k].pc = "returned" =>
           Len(createChannel) < ChannelCapacity(tableCount)
    /\ \A k \in 1..Len(expires) :
         (expires[k].pc = "barrier"
            /\ ~BarrierMore(expires[k].i, expires[k].deleteCount)) =>
           Len(expireChannel) < ChannelCapacity(tableCount)

\* main has received nothing yet, createChannel holds one message, a
\* createBackup is at its send and expireChannel is full
C14_Witness ==
    /\ mainPc = "recvCreate"
    /\ i = 0
    /\ N = 2
    /\ Len(createChannel) = 1
    /\ \E k \in 1..Len(creates) : creates[k].pc = "returned"
    /\ Len(expireChannel) = 2

\* the backups of table t that were created in the run and are in the store
NewBackupsOf(t) == {b \in backups \ initialBackups : b.table = t}

\* a DeleteBackup call of the run removed the backup with this ARN
DeletedInRun(arn) ==
    \E k \in 1..Len(expires) : \E j \in 1..Len(expires[k].deletes) :
      /\ expires[k].deletes[j].backup.arn = arn
      /\ expires[k].deletes[j].pc \in {"returned", "done"}
      /\ expires[k].deletes[j].err = Nil

\* C15: a createBackup issues one CreateBackup call and then sends one
\* CreateMessage with its table and the name it built; the message has no
\* error exactly when the call succeeded, and then the store got one new
\* backup of the table, with that name; after a failed call it got none.
C15_OneCreatePerTask ==
    \A k \in 1..Len(creates) :
      LET t == creates[k].table
      IN  /\ CallsOf("CreateBackup", t) = (IF creates[k].pc = "start" THEN 0 ELSE 1)
          /\ ResultsOf(emittedCreate, t) = (IF creates[k].pc = "done" THEN 1 ELSE 0)
          /\ creates[k].pc \in {"start", "calling"} => NewBackupsOf(t) = {}
          /\ creates[k].pc \in {"returned", "done"} =>
               IF creates[k].err = Nil
                 THEN \/ /\ Cardinality(NewBackupsOf(t)) = 1
                         /\ \A b \in NewBackupsOf(t) : b.name = creates[k].name
                      \/ /\ NewBackupsOf(t) = {}
                         /\ DeletedInRun(NewArn(k))
                 ELSE NewBackupsOf(t) = {}
          /\ creates[k].pc = "done" =>
               \A m \in BagToSet(emittedCreate) :
                 m.TableName = t =>
                   /\ m.BackupName = creates[k].name
                   /\ m.BackupName[1] = t
                   /\ m.Error = creates[k].err

\* of two createBackups that have sent, one failed and left no backup, and
\* the other succeeded and left one
C15_Witness ==
    \E k1, k2 \in 1..Len(creates) :
      /\ creates[k1].pc = "done"
      /\ creates[k1].err = Err
      /\ NewBackupsOf(creates[k1].table) = {}
      /\ creates[k2].pc = "done"
      /\ creates[k2].err = Nil
      /\ Cardinality(NewBackupsOf(creates[k2].table)) = 1

\* the pages that the store delivered when the pages are requested in turn
\* until a request fails: all of them without a failure, and otherwise the
\* ones before the failed request
PagesBeforeFailure ==
    IF listTablesErr = Nil
      THEN tablePages
      ELSE SubSeq(tablePages, 1, CallsOf("ListTables", "") - 1)

ListingFailsOnFirstPageOnly == listTablesErr # Nil => pageNum = 0

\* the deleteBackups of the k-th expireBackups that have sent
SentDeletes(k) ==
    {j \in 1..Len(expires[k].deletes) : expires[k].deletes[j].pc = "done"}

\* C17: every backup that an expireBackups listed has one deleteBackup, which
\* issues one DeleteBackup call, by the backup's ARN, and sends one outcome;
\* no backup is listed twice, and the outcomes of an expireBackups' own
\* deleteBackups are the messages its deleteChannel holds or it has received.
C17_OneDeletePerBackup ==
    /\ \A k \in 1..Len(expires) :
         /\ Len(expires[k].deletes) = Len(expires[k].summaries)
         /\ \A j \in 1..Len(expires[k].deletes) :
              /\ expires[k].deletes[j].backup = expires[k].summaries[j]
              /\ DeleteCallsOf(expires[k].summaries[j].arn) =
                   (IF expires[k].deletes[j].pc = "start" THEN 0 ELSE 1)
              /\ \A j2 \in 1..Len(expires[k].summaries) :
                   j2 # j => expires[k].summaries[j2].arn # expires[k].summaries[j].arn
         /\ expires[k].i + Len(expires[k].deleteChannel) = Cardinality(SentDeletes(k))
         /\ expires[k].pc = "done" =>
              /\ expires[k].i = Len(expires[k].summaries)
              /\ Cardinality(SentDeletes(k)) = Len(expires[k].summaries)
    /\ \A k1, k2 \in 1..Len(expires) :
         k1 # k2 =>
           \A j1 \in 1..Len(expires[k1].summaries) :
             \A j2 \in 1..Len(expires[k2].summaries) :
               expires[k1].summaries[j1].arn # expires[k2].summaries[j2].arn
    /\ \A c \in BagToSet(storeCalls) :
         c.op = "DeleteBackup" =>
           \E k \in 1..Len(expires) : \E j \in 1..Len(expires[k].summaries) :
             expires[k].summaries[j].arn = c.arn /\ expires[k].table = c.table

\* two expireBackups have sent, each after one delete of its own
C17_Witness ==
    /\ Len(expires) = 2
    /\ \A k \in 1..Len(expires) :
         /\ expires[k].pc = "done"
         /\ Len(expires[k].summaries) = 1
         /\ expires[k].i = 1
         /\ DeleteCallsOf(expires[k].summaries[1].arn) = 1


(***************************************************************************)
(* createBackup's naming alone                                             *)
(***************************************************************************)
\* the values of time.Now().UTC() the names are made of
Times ==
    [year : {2024, 2025}, month : {1, 12}, day : {1, 31}, hour : {0, 23},
     minute : {0, 59}, second : {5, 59}]

\* two createBackup calls for one table, each with its own time.Now()
InitNames ==
    /\ TableRegex = PatOrders
    /\ BackupExpireDays = DefaultExpireDays
    /\ tablePages = Chunk(StoreOrder, Len(StoreOrder))
    /\ backups = {}
    /\ initialBackups = backups
    /\ InitRun
    /\ naming \in [table : TableNames, times : Times \X Times, names : {<<>>}]

\* timestamp := fmt.Sprintf(...); backupName := fmt.Sprintf("%s_%s", ...)
FormatNames ==
    /\ naming.times # <<>>
    /\ naming.names = <<>>
    /\ naming' = [naming EXCEPT !.names =
                     [j \in 1..Len(naming.times) |->
                        BackupName(naming.table, naming.times[j])]]
    /\ UNCHANGED <<configVars, storeVars, clock, matcherVars, mainVars,
                   channelVars, taskVars, historyVars>>

NameSpec == InitNames /\ [][FormatNames]_vars

\* the two times agree on everything the claim lists
SameButHour(a, b) ==
    /\ a.year = b.year
    /\ a.month = b.month
    /\ a.day = b.day
    /\ a.minute = b.minute
    /\ a.second = b.second

CreatedInRun ==
    {k \in 1..Len(creates) :
        creates[k].pc \in {"returned", "done"} /\ creates[k].err = Nil}

\* C19: when the retention threshold is at least one day and less than one
\* day passes during the run, a backup that a createBackup of the run
\* created is never listed by an expireBackups of the run, no deleteBackup is
\* started and no DeleteBackup call issued for it, and it stays in the store.
C19_NewBackupSurvivesRun ==
    (BackupExpireDays >= 1 /\ clock - StartTime < DayLen) =>
      /\ \A k \in 1..Len(expires) :
           /\ \A j \in 1..Len(expires[k].summaries) :
                expires[k].summaries[j] \in initialBackups
           /\ \A j \in 1..Len(expires[k].deletes) :
                expires[k].deletes[j].backup \in initialBackups
      /\ \A k \in CreatedInRun :
           /\ DeleteCallsOf(NewArn(k)) = 0
           /\ \E b \in backups :
                /\ b.arn = NewArn(k)
                /\ b.table = creates[k].table
                /\ b \notin initialBackups

\* with a retention of a day, a table's backup was created, the clock
\* ticked, the table's expireBackups then started, listed with success and
\* finished, and the new backup is still in the store
C19_Witness ==
    /\ BackupExpireDays >= 1
    /\ \E k \in CreatedInRun :
         /\ expires[k].pc = "done"
         /\ expires[k].err = Nil
         /\ \E b \in backups :
              /\ b.arn = NewArn(k)
              /\ b.created < expires[k].now
              /\ b.created >= expires[k].cutoff

\* C20: a table's deleteChannel has room for every deleteBackup that is at
\* its send and is not closed then; it is closed only after a failed listing,
\* with no deleteBackup started; and once expireBackups has sent its
\* ExpireMessage the channel is empty and no deleteBackup has yet to send.
C20_DeleteChannelSafe ==
    \A k \in 1..Len(expires) :
      /\ Len(expires[k].deleteChannel) <= Len(expires[k].summaries)
      /\ \A j \in 1..Len(expires[k].deletes) :
           expires[k].deletes[j].pc = "returned" =>
             /\ ~expires[k].closed
             /\ Len(expires[k].deleteChannel)
                  < DeleteChannelCapacity(expires[k].deleteCount)
      /\ expires[k].closed =>
           /\ expires[k].err # Nil
           /\ expires[k].deletes = <<>>
      /\ expires[k].pc = "done" =>
           /\ expires[k].deleteChannel = <<>>
           /\ \A j \in 1..Len(expires[k].deletes) :
                expires[k].deletes[j].pc = "done"

\* one table's deleteChannel of capacity two holds a message while a
\* deleteBackup is at its send, and another table's expireBackups has
\* closed its deleteChannel and sent its ExpireMessage
C20_Witness ==
    /\ \E k \in 1..Len(expires) :
         /\ expires[k].pc = "barrier"
         /\ expires[k].deleteCount = 2
         /\ Len(expires[k].deleteChannel) = 1
         /\ \E j \in 1..Len(expires[k].deletes) :
              expires[k].deletes[j].pc = "returned"
    /\ \E k \in 1..Len(expires) :
         /\ expires[k].closed
         /\ expires[k].pc = "done"

====
